---- MODULE Spec2Model ----
(***************************************************************************)
(* color-converter: conversion between the fractional rgb colour values of *)
(* Endless Sky and 24 bit HTML colour codes (color-converter.cpp).         *)
(*                                                                         *)
(* A string is a sequence of character codes (ASCII), so that the range    *)
(* comparisons and the character arithmetic of the code are what the model *)
(* computes.  A double is a pair <<numerator, denominator>> with a         *)
(* positive denominator; every double the model builds is one whose IEEE   *)
(* arithmetic in the code agrees with the exact arithmetic used here       *)
(* (dyadic fractions, and b/255 for a byte b, for which (b/255.0)*255      *)
(* truncates to b).                                                        *)
(***************************************************************************)
EXTENDS Integers, Sequences, FiniteSets

VARIABLES
    pc,         \* position of the program or of the call under study
    val,        \* ToHex: the argument (-1 when the call is not made)
    input,      \* HexToDec: the argument string
    encoded,    \* ToHex: the returned string
    decoded,    \* HexToDec: the returned int (-1 before the call)
    hex,        \* HTMLToES: the argument string
    channels,   \* ESToHTML: the values node.Value(index + i) reads
    fractions,  \* HTMLToES: the returned vector<double>
    html,       \* ESToHTML: the returned string
    file,       \* the top-level nodes DataFile yields for the path
    argv,       \* main: argv[0..argc-1] (argv[argc] is the null pointer)
    it,         \* main: the position of the pointer `it` in argv
    status,     \* main: the exit status (-1 while running)
    ran,        \* main: the conversions called so far, in order
    stdout      \* the characters written to cout

codecVars == <<val, input, encoded, decoded>>
colorVars == <<hex, channels, fractions, html>>
mainVars == <<argv, it, status, ran>>
vars == <<pc, val, input, encoded, decoded, hex, channels, fractions, html,
          file, argv, it, status, ran, stdout>>

(***************************************************************************)
(* Bounds of the model.                                                    *)
(***************************************************************************)
MaxChar == 127
MaxHexLen == 8
MaxFields == 3
MaxRecords == 3
MaxArgs == 4

(***************************************************************************)
(* Helpers on sequences.                                                   *)
(***************************************************************************)
SeqsUpTo(S, n) == UNION {[1..k -> S] : k \in 0..n}

Min(S) == CHOOSE x \in S : \A y \in S : x <= y

RECURSIVE Concat(_)
Concat(ss) == IF ss = <<>> THEN <<>> ELSE Head(ss) \o Concat(Tail(ss))

\* std::string::operator[]: s[size()] is the terminating NUL.
CharAt(s, i) == IF i < Len(s) THEN s[i + 1] ELSE 0

(***************************************************************************)
(* ToHex                                                                   *)
(***************************************************************************)
DecToHex == <<48, 49, 50, 51, 52, 53, 54, 55, 56, 57, 65, 66, 67, 68, 69, 70>>

RECURSIVE ToHex(_)
ToHex(v) ==
    IF v >= 16
    THEN <<DecToHex[(v \div 16) + 1]>> \o ToHex(v % 16)
    ELSE <<DecToHex[v + 1]>>

(***************************************************************************)
(* HTMLToES and its local HexToDec                                         *)
(***************************************************************************)
converter == << <<48, 57>>, <<65, 70>>, <<97, 102>> >>

\* The inner loop over `converter` for one character: every range that
\* holds the character adds (character - range start) * multiplier.
RECURSIVE ConverterSum(_, _, _)
ConverterSum(c, multiplier, k) ==
    IF k > Len(converter) THEN 0
    ELSE (IF c >= converter[k][1] /\ c <= converter[k][2]
          THEN (c - converter[k][1]) * multiplier
          ELSE 0)
         + ConverterSum(c, multiplier, k + 1)

\* The outer loop, from input.rbegin() (position n) to input.rend().
RECURSIVE HexToDecLoop(_, _, _)
HexToDecLoop(str, n, multiplier) ==
    IF n = 0 THEN 0
    ELSE ConverterSum(str[n], multiplier, 1)
         + HexToDecLoop(str, n - 1, multiplier * 16)

HexToDec(str) == HexToDecLoop(str, Len(str), 1)

\* HTMLToES without the test of hex[0].
HTMLToESNoHashCheck(h) ==
    IF Len(h) < 7 THEN <<>>
    ELSE [k \in 1..3 |-> <<HexToDec(SubSeq(h, 2 * k, 2 * k + 1)), 255>>]

HTMLToES(h) ==
    IF CharAt(h, 0) # 35 THEN <<>>
    ELSE IF Len(h) < 7 THEN <<>>
    ELSE [k \in 1..3 |-> <<HexToDec(SubSeq(h, 2 * k, 2 * k + 1)), 255>>]

(***************************************************************************)
(* ESToHTML                                                                *)
(***************************************************************************)
IntMax == 2147483647
IntMin == -IntMax - 1

\* The values an out-of-range double-to-int conversion is given in the
\* model: the conversion is undefined, any int may result.
UndefinedInts == {IntMin, 77, IntMax}

\* int val = d * 255: truncation toward zero; undefined (u) when the
\* truncated value is no int.  With m the magnitude of the numerator,
\* trunc(m * 255 / den) = 255 * (m \div den) + ((m % den) * 255) \div den.
DoubleTimes255ToInt(d, u) ==
    LET m == IF d[1] >= 0 THEN d[1] ELSE -d[1]
        w == m \div d[2]
        t == ((m % d[2]) * 255) \div d[2]
        limit == IF d[1] >= 0 THEN IntMax % 255 ELSE (IntMax % 255) + 1
        fits == w < IntMax \div 255 \/ (w = IntMax \div 255 /\ t <= limit)
    IN  IF ~fits THEN u
        ELSE IF d[1] >= 0 THEN 255 * w + t
        ELSE IF w = IntMax \div 255 /\ t = limit THEN IntMin
        ELSE -(255 * w + t)

MinInt(a, b) == IF b < a THEN b ELSE a
MaxInt(a, b) == IF a < b THEN b ELSE a

\* values[index + i + 1] is node.Value(index + i); u[i + 1] is what the
\* i-th conversion yields when it is undefined.
ESToHTML(values, index, u) ==
    LET Channel(i) ==
            MaxInt(0, MinInt(255, DoubleTimes255ToInt(values[index + i + 1], u[i + 1])))
    IN  <<35>> \o ToHex(Channel(0)) \o ToHex(Channel(1)) \o ToHex(Channel(2))

(***************************************************************************)
(* DataNode and DataFile (shared/DataNode.h, shared/DataFile.h): a node is *)
(* the sequence of its tokens, a file the sequence of its top-level nodes. *)
(***************************************************************************)
Token(node, i) == node[i + 1]
Size(node) == Len(node)

\* The number a token spells, for the number tokens of the model:
\* "1", "0", "0.5", "0.25"; any other token counts as 0.
Value(token) ==
    IF token = <<49>> THEN <<1, 1>>
    ELSE IF token = <<48, 46, 53>> THEN <<1, 2>>
    ELSE IF token = <<48, 46, 50, 53>> THEN <<1, 4>>
    ELSE <<0, 1>>

NodeValues(node) == [i \in 1..Len(node) |-> Value(node[i])]

(***************************************************************************)
(* operator<<(double) with the stream's default format: %g with 6          *)
(* significant digits, for a double n/den in [0, 1].                       *)
(***************************************************************************)
RECURSIVE Power10(_)
Power10(k) == IF k = 0 THEN 1 ELSE 10 * Power10(k - 1)

RECURSIVE Digits(_, _)
Digits(r, width) ==
    IF width = 0 THEN <<>> ELSE Digits(r \div 10, width - 1) \o <<48 + (r % 10)>>

RECURSIVE StripZeros(_)
StripZeros(str) ==
    IF str # <<>> /\ str[Len(str)] = 48
    THEN StripZeros(SubSeq(str, 1, Len(str) - 1))
    ELSE str

FormatDouble(d) ==
    IF d[1] = 0 THEN <<48>>
    ELSE IF d[1] = d[2] THEN <<49>>
    ELSE LET decimals == IF d[1] * 10 >= d[2] THEN 6
                         ELSE IF d[1] * 100 >= d[2] THEN 7
                         ELSE 8
             r == (2 * d[1] * Power10(decimals) + d[2]) \div (2 * d[2])
         IN  <<48, 46>> \o StripZeros(Digits(r, decimals))

(***************************************************************************)
(* ESFileToHTML                                                            *)
(***************************************************************************)
COLOR == <<99, 111, 108, 111, 114>>

\* The first loop: the (name, colour code) pairs, in the order of the nodes.
RECURSIVE ESFileToHTMLResults(_, _)
\* The loop without the test of Token(0).
ESFileToHTMLResultsAnyKeyword(nodes, u) ==
    IF nodes = <<>> THEN <<>>
    ELSE (IF Size(Head(nodes)) >= 5
          THEN << <<Token(Head(nodes), 1), ESToHTML(NodeValues(Head(nodes)), 2, u)>> >>
          ELSE <<>>)
         \o ESFileToHTMLResults(Tail(nodes), u)

ESFileToHTMLResults(nodes, u) ==
    IF nodes = <<>> THEN <<>>
    ELSE (IF Token(Head(nodes), 0) = COLOR /\ Size(Head(nodes)) >= 5
          THEN << <<Token(Head(nodes), 1), ESToHTML(NodeValues(Head(nodes)), 2, u)>> >>
          ELSE <<>>)
         \o ESFileToHTMLResults(Tail(nodes), u)

\* The second loop: "\"" << first << "\" " << second << '\n'.
ESFileToHTML(nodes, u) ==
    LET results == ESFileToHTMLResults(nodes, u)
    IN  Concat([k \in 1..Len(results) |->
                   <<34>> \o results[k][1] \o <<34, 32>> \o results[k][2] \o <<10>>])

(***************************************************************************)
(* HTMLFileToES                                                            *)
(***************************************************************************)
RECURSIVE HTMLFileToESResults(_)
\* The loop skipping the records HTMLToES fails on.
HTMLFileToESResultsSkipEmpty(nodes) ==
    IF nodes = <<>> THEN <<>>
    ELSE (IF /\ Token(Head(nodes), 0) = COLOR /\ Size(Head(nodes)) >= 3
             /\ HTMLToES(Token(Head(nodes), 2)) # <<>>
          THEN << <<Token(Head(nodes), 1), HTMLToES(Token(Head(nodes), 2))>> >>
          ELSE <<>>)
         \o HTMLFileToESResults(Tail(nodes))

HTMLFileToESResults(nodes) ==
    IF nodes = <<>> THEN <<>>
    ELSE (IF Token(Head(nodes), 0) = COLOR /\ Size(Head(nodes)) >= 3
          THEN << <<Token(Head(nodes), 1), HTMLToES(Token(Head(nodes), 2))>> >>
          ELSE <<>>)
         \o HTMLFileToESResults(Tail(nodes))

\* "color" << '"' << first << '"', then ' ' << val for each value, then '\n'.
HTMLFileToES(nodes) ==
    LET results == HTMLFileToESResults(nodes)
    IN  Concat([k \in 1..Len(results) |->
                   COLOR \o <<34>> \o results[k][1] \o <<34>>
                   \o Concat([j \in 1..Len(results[k][2]) |->
                                 <<32>> \o FormatDouble(results[k][2][j])])
                   \o <<10>>])

(***************************************************************************)
(* main                                                                    *)
(***************************************************************************)
\* The six lines PrintHelp writes, each ended by endl.
PrintHelp ==
       <<45, 45, 101, 115, 45, 116, 111, 45, 104, 101, 120, 32, 60, 102, 105,
          108, 101, 62, 58, 32, 82, 101, 97, 100, 115, 32, 69, 110, 100, 108,
          101, 115, 115, 32, 83, 107, 121, 32, 99, 111, 108, 111, 114, 115, 32,
          102, 114, 111, 109, 32, 116, 104, 101, 32, 102, 105, 108, 101, 32, 97,
          116, 32, 116, 104, 101, 32, 103, 105, 118, 101, 110, 32, 112, 97, 116,
          104, 32, 97, 110, 100, 32, 112, 114, 105, 110, 116, 115, 32, 116, 111,
          32, 83, 84, 68, 79, 85, 84, 97, 32, 108, 105, 115, 116, 32, 111, 102,
          32, 116, 104, 101, 32, 112, 97, 114, 115, 101, 100, 32, 99, 111, 108,
          111, 114, 115, 32, 119, 105, 116, 104, 32, 118, 97, 108, 117, 101,
          115, 32, 103, 105, 118, 101, 110, 32, 97, 115, 32, 50, 52, 32, 98,
          105, 116, 32, 104, 101, 120, 97, 100, 101, 99, 105, 109, 97, 108, 32,
          72, 84, 77, 76, 32, 99, 111, 108, 111, 114, 32, 99, 111, 100, 101,
          115, 46, 10>>
    \o <<45, 45, 104, 101, 120, 45, 116, 111, 45, 101, 115, 32, 60, 102, 105,
          108, 101, 62, 58, 32, 82, 101, 97, 100, 115, 32, 50, 52, 32, 98, 105,
          116, 32, 104, 101, 120, 97, 100, 101, 99, 105, 109, 97, 108, 32, 72,
          84, 77, 76, 32, 99, 111, 108, 111, 114, 115, 32, 102, 114, 111, 109,
          32, 116, 104, 101, 32, 102, 105, 108, 101, 32, 97, 116, 32, 116, 104,
          101, 32, 103, 105, 118, 101, 110, 32, 112, 97, 116, 104, 32, 97, 110,
          100, 32, 112, 114, 105, 110, 116, 115, 116, 111, 32, 83, 84, 68, 79,
          85, 84, 32, 97, 32, 108, 105, 115, 116, 32, 111, 102, 32, 116, 104,
          101, 32, 112, 97, 114, 115, 101, 100, 32, 99, 111, 108, 111, 114, 115,
          32, 105, 110, 32, 116, 104, 101, 32, 69, 110, 100, 108, 101, 115, 115,
          32, 83, 107, 121, 32, 99, 111, 108, 111, 114, 32, 102, 111, 114, 109,
          97, 116, 46, 10>>
    \o <<69, 110, 100, 108, 101, 115, 115, 32, 83, 107, 121, 32, 102, 111, 114,
          109, 97, 116, 58, 32, 99, 111, 108, 111, 114, 32, 60, 110, 97, 109,
          101, 62, 32, 60, 114, 35, 62, 32, 60, 103, 35, 62, 32, 60, 98, 35, 62,
          32, 91, 60, 97, 35, 62, 93, 10>>
    \o <<50, 52, 32, 98, 105, 116, 32, 104, 101, 120, 32, 102, 111, 114, 109,
          97, 116, 58, 32, 99, 111, 108, 111, 114, 32, 60, 110, 97, 109, 101,
          62, 32, 35, 60, 48, 120, 114, 114, 62, 60, 48, 120, 103, 103, 62, 60,
          48, 120, 98, 98, 62, 10>>
    \o <<60, 114, 35, 62, 32, 60, 103, 35, 62, 32, 60, 98, 35, 62, 32, 91, 60,
          97, 35, 62, 93, 58, 32, 67, 111, 110, 118, 101, 114, 116, 115, 32,
          116, 104, 101, 32, 103, 105, 118, 101, 110, 32, 69, 110, 100, 108,
          101, 115, 115, 32, 83, 107, 121, 32, 99, 111, 108, 111, 114, 32, 116,
          111, 32, 72, 84, 77, 76, 32, 102, 111, 114, 109, 97, 116, 46, 10>>
    \o <<35, 60, 48, 120, 114, 114, 62, 60, 48, 120, 103, 103, 62, 60, 48, 120,
          98, 98, 62, 58, 32, 67, 111, 110, 118, 101, 114, 116, 115, 32, 116,
          104, 101, 32, 103, 105, 118, 101, 110, 32, 72, 84, 77, 76, 32, 99,
          111, 108, 111, 114, 32, 116, 111, 32, 69, 110, 100, 108, 101, 115,
          115, 32, 83, 107, 121, 32, 102, 111, 114, 109, 97, 116, 46, 10>>

ES_TO_HEX == <<45, 45, 101, 115, 45, 116, 111, 45, 104, 101, 120>>
HEX_TO_ES == <<45, 45, 104, 101, 120, 45, 116, 111, 45, 101, 115>>
\* "Error: expected additional argument:\n\n"
ExpectedArgument ==
    <<69, 114, 114, 111, 114, 58, 32, 101, 120, 112, 101, 99, 116, 101, 100,
      32, 97, 100, 100, 105, 116, 105, 111, 110, 97, 108, 32, 97, 114, 103,
      117, 109, 101, 110, 116, 58, 10, 10>>

\* argv as C sees it: argv[0] is Arg(0), argv[argc] is the null pointer.
argc == Len(argv)
Arg(i) == argv[i + 1]
IsNull(i) == i >= argc

\* The nodes DataFile reads at a path: the file system of the model holds
\* one file, colors.txt; any other path holds no node.
COLORS_TXT == <<99, 111, 108, 111, 114, 115, 46, 116, 120, 116>>
DataFile(path) ==
    IF path = COLORS_TXT
    THEN << <<COLOR, <<82, 101, 100>>, <<49>>, <<48>>, <<48>> >>,
            <<COLOR, <<66, 97, 100>>, <<49>>, <<48>> >>,
            <<COLOR, <<72, 101, 120>>, <<35, 57, 70, 48, 97, 49, 66>> >>,
            <<COLOR, <<71, 114, 101, 121>>, <<48, 46, 53>>, <<48, 46, 53>>,
              <<48, 46, 53>>, <<49>> >> >>
    ELSE <<>>

\* DataNode::AsDataNodes: data[0] holds the arguments as its tokens, the
\* program's name first.
AsDataNodes(args) == <<args>>

\* for(double it : HTMLToES(arg)): the values, separated by ' '.
RECURSIVE PrintFractions(_, _)
PrintFractions(values, index) ==
    IF index >= Len(values) THEN <<>>
    ELSE (IF index # 0 THEN <<32>> ELSE <<>>)
         \o FormatDouble(values[index + 1])
         \o PrintFractions(values, index + 1)

IsModeFlag(arg) == arg = ES_TO_HEX \/ arg = HEX_TO_ES

\* if(argc < 2) { PrintHelp(); return 1; }
MainNoArguments ==
    /\ pc = "main" /\ argc < 2
    /\ stdout' = stdout \o PrintHelp
    /\ status' = 1
    /\ pc' = "exit"
    /\ UNCHANGED <<codecVars, colorVars, file, argv, it, ran>>

\* it = argv + 1
MainEnterLoop ==
    /\ pc = "main" /\ argc >= 2
    /\ it' = 1
    /\ pc' = "loop"
    /\ UNCHANGED <<codecVars, colorVars, file, argv, status, ran, stdout>>

\* A mode flag with no argument after it.
MainExpectedArgument ==
    /\ pc = "loop" /\ ~IsNull(it) /\ IsModeFlag(Arg(it))
    /\ IsNull(it + 1)
    /\ it' = it + 1
    /\ stdout' = stdout \o ExpectedArgument \o PrintHelp
    /\ status' = 1
    /\ pc' = "exit"
    /\ UNCHANGED <<codecVars, colorVars, file, argv, ran>>

MainESFileToHTML ==
    /\ pc = "loop" /\ ~IsNull(it) /\ Arg(it) = ES_TO_HEX
    /\ ~IsNull(it + 1)
    /\ it' = it + 1
    /\ file' = DataFile(Arg(it + 1))
    /\ \E x \in UndefinedInts :
         stdout' = stdout \o ESFileToHTML(DataFile(Arg(it + 1)), [i \in 1..3 |-> x])
    /\ ran' = Append(ran, [fn |-> "ESFileToHTML", arg |-> Arg(it + 1)])
    /\ status' = 0
    /\ pc' = "exit"
    /\ UNCHANGED <<codecVars, colorVars, argv>>

MainHTMLFileToES ==
    /\ pc = "loop" /\ ~IsNull(it) /\ Arg(it) # ES_TO_HEX /\ Arg(it) = HEX_TO_ES
    /\ ~IsNull(it + 1)
    /\ it' = it + 1
    /\ file' = DataFile(Arg(it + 1))
    /\ stdout' = stdout \o HTMLFileToES(DataFile(Arg(it + 1)))
    /\ ran' = Append(ran, [fn |-> "HTMLFileToES", arg |-> Arg(it + 1)])
    /\ status' = 0
    /\ pc' = "exit"
    /\ UNCHANGED <<codecVars, colorVars, argv>>

\* The '#' branch without its return: the loop goes on.
MainHTMLToESNoReturn ==
    /\ pc = "loop" /\ ~IsNull(it) /\ ~IsModeFlag(Arg(it))
    /\ CharAt(Arg(it), 0) = 35
    /\ stdout' = stdout \o PrintFractions(HTMLToES(Arg(it)), 0)
    /\ ran' = Append(ran, [fn |-> "HTMLToES", arg |-> Arg(it)])
    /\ it' = it + 1
    /\ UNCHANGED <<pc, codecVars, colorVars, file, argv, status>>

\* else if(arg[0] == '#')
MainHTMLToES ==
    /\ pc = "loop" /\ ~IsNull(it) /\ ~IsModeFlag(Arg(it))
    /\ CharAt(Arg(it), 0) = 35
    /\ stdout' = stdout \o PrintFractions(HTMLToES(Arg(it)), 0)
    /\ ran' = Append(ran, [fn |-> "HTMLToES", arg |-> Arg(it)])
    /\ status' = 0
    /\ pc' = "exit"
    /\ UNCHANGED <<codecVars, colorVars, file, argv, it>>

\* Neither: ++it.
MainNextArgument ==
    /\ pc = "loop" /\ ~IsNull(it) /\ ~IsModeFlag(Arg(it))
    /\ CharAt(Arg(it), 0) # 35
    /\ it' = it + 1
    /\ UNCHANGED <<pc, codecVars, colorVars, file, argv, status, ran, stdout>>

\* The loop ends at the null pointer.
MainLeaveLoop ==
    /\ pc = "loop" /\ IsNull(it)
    /\ pc' = "after"
    /\ UNCHANGED <<codecVars, colorVars, file, mainVars, stdout>>

\* if(argc > 3) { cout << ESToHTML(data[0], 1); return 0; }
MainESToHTML ==
    /\ pc = "after" /\ argc > 3
    /\ \E u \in [1..3 -> UndefinedInts] :
         stdout' = stdout \o ESToHTML(NodeValues(AsDataNodes(argv)[1]), 1, u)
    /\ ran' = Append(ran, [fn |-> "ESToHTML", arg |-> argv])
    /\ status' = 0
    /\ pc' = "exit"
    /\ UNCHANGED <<codecVars, colorVars, file, argv, it>>

\* return 2;
MainFallThrough ==
    /\ pc = "after" /\ ~(argc > 3)
    /\ status' = 2
    /\ pc' = "exit"
    /\ UNCHANGED <<codecVars, colorVars, file, argv, it, ran, stdout>>

(***************************************************************************)
(* The hex codec on its own: ToHex on every byte, HexToDec on every string *)
(* of two characters, and HexToDec on what ToHex returned.                 *)
(***************************************************************************)
Chars == 0..MaxChar
Pairs == [1..2 -> Chars]

noColor == hex = <<>> /\ channels = <<>> /\ fractions = <<>> /\ html = <<>>
noFile == file = <<>>
noMain == argv = <<>> /\ it = 0 /\ status = -1 /\ ran = <<>>

InitCodec ==
    /\ pc = "start"
    /\ \/ val \in 0..255 /\ input = <<>>
       \/ val = -1 /\ input \in Pairs
    /\ encoded = <<>>
    /\ decoded = -1
    /\ noColor /\ noFile /\ noMain /\ stdout = <<>>

CallToHex ==
    /\ pc = "start" /\ val # -1
    /\ encoded' = ToHex(val)
    /\ pc' = "encoded"
    /\ UNCHANGED <<val, input, decoded, colorVars, file, mainVars, stdout>>

CallHexToDecOfToHex ==
    /\ pc = "encoded"
    /\ decoded' = HexToDec(encoded)
    /\ pc' = "roundtrip"
    /\ UNCHANGED <<val, input, encoded, colorVars, file, mainVars, stdout>>

CallHexToDec ==
    /\ pc = "start" /\ val = -1
    /\ decoded' = HexToDec(input)
    /\ pc' = "decoded"
    /\ UNCHANGED <<val, input, encoded, colorVars, file, mainVars, stdout>>

NextCodec == CallToHex \/ CallHexToDecOfToHex \/ CallHexToDec

SpecCodec == InitCodec /\ [][NextCodec]_vars

(***************************************************************************)
(* The colour converter on its own: HTMLToES on strings, ESToHTML on       *)
(* channel triples, and ESToHTML on what HTMLToES returned.                *)
(***************************************************************************)
\* '#', '9', 'f': every string of these up to MaxHexLen characters.
StringChars == {35, 57, 102}
\* '#' and six of the hex digits '0', '9', 'A', 'F', 'a', 'f'.
HexDigitSamples == {48, 57, 65, 70, 97, 102}
HexInputs ==
    SeqsUpTo(StringChars, MaxHexLen)
    \cup {<<35>> \o d : d \in [1..6 -> HexDigitSamples]}

\* -1, 0, 1/255, 1/4, 1/2, 254/255, 1, 2, and 10^7 (times 255 it is no int).
ChannelSamples ==
    {<<-1, 1>>, <<0, 1>>, <<1, 255>>, <<1, 4>>, <<1, 2>>, <<254, 255>>,
     <<1, 1>>, <<2, 1>>, <<10000000, 1>>}

noCodec == val = -1 /\ input = <<>> /\ encoded = <<>> /\ decoded = -1

InitColor ==
    /\ pc = "start"
    /\ \/ hex \in HexInputs /\ channels = <<>>
       \/ hex = <<>> /\ channels \in [1..3 -> ChannelSamples]
    /\ fractions = <<>>
    /\ html = <<>>
    /\ noCodec /\ noFile /\ noMain /\ stdout = <<>>

CallHTMLToES ==
    /\ pc = "start" /\ channels = <<>>
    /\ fractions' = HTMLToES(hex)
    /\ pc' = "fractions"
    /\ UNCHANGED <<hex, channels, html, codecVars, file, mainVars, stdout>>

CallESToHTMLOfHTMLToES ==
    /\ pc = "fractions" /\ fractions # <<>>
    /\ \E u \in [1..3 -> UndefinedInts] : html' = ESToHTML(fractions, 0, u)
    /\ pc' = "roundtrip"
    /\ UNCHANGED <<hex, channels, fractions, codecVars, file, mainVars, stdout>>

CallESToHTML ==
    /\ pc = "start" /\ channels # <<>>
    /\ \E u \in [1..3 -> UndefinedInts] : html' = ESToHTML(channels, 0, u)
    /\ pc' = "html"
    /\ UNCHANGED <<hex, channels, fractions, codecVars, file, mainVars, stdout>>

NextColor == CallHTMLToES \/ CallESToHTMLOfHTMLToES \/ CallESToHTML

SpecColor == InitColor /\ [][NextColor]_vars

(***************************************************************************)
(* What the specification says of the codec and of the converter, stated   *)
(* without the code's tables: the value of a hex digit, the upper-case     *)
(* digit of a nibble, the two-digit encoding of a byte.                    *)
(***************************************************************************)
IsHexDigit(c) ==
    (c >= 48 /\ c <= 57) \/ (c >= 65 /\ c <= 70) \/ (c >= 97 /\ c <= 102)

DigitValue(c) ==
    IF c >= 48 /\ c <= 57 THEN c - 48
    ELSE IF c >= 65 /\ c <= 70 THEN c - 55
    ELSE c - 87

UpperCase(c) == IF c >= 97 /\ c <= 122 THEN c - 32 ELSE c
LowerCase(c) == IF c >= 65 /\ c <= 90 THEN c + 32 ELSE c

HexDigitOf(n) == IF n < 10 THEN 48 + n ELSE 55 + n

TwoDigitHex(b) == <<HexDigitOf(b \div 16), HexDigitOf(b % 16)>>

\* clamp(truncate-toward-zero(d * 255), 0, 255) of a double d.
ClampedByte(d) ==
    IF d[1] <= 0 THEN 0
    ELSE IF d[1] >= d[2] THEN 255
    ELSE (d[1] * 255) \div d[2]

IsHexColor(h) == Len(h) = 7 /\ h[1] = 35 /\ \A i \in 2..7 : IsHexDigit(h[i])

\* C1: for every v in 0..255, decoding with HexToDec what ToHex(v) returned
\* gives v back.
C1_RoundTripByte == pc = "roundtrip" => decoded = val

\* C2: for every v in 0..255, ToHex(v) is exactly two characters, the
\* upper-case hex digit of v / 16 followed by that of v % 16.
C2_ToHexTwoDigits ==
    pc \in {"encoded", "roundtrip"} =>
        /\ Len(encoded) = 2
        /\ encoded[1] = HexDigitOf(val \div 16)
        /\ encoded[2] = HexDigitOf(val % 16)

\* C3: for every string of two hex digits, HexToDec returns
\* (value of the first) * 16 + (value of the second), with A/a..F/f worth
\* 10..15; the result is in 0..255 and does not depend on the digits' case.
C3_HexToDecValue ==
    (pc = "decoded" /\ IsHexDigit(input[1]) /\ IsHexDigit(input[2])) =>
        /\ decoded = DigitValue(input[1]) * 16 + DigitValue(input[2])
        /\ decoded \in 0..255
        /\ decoded = HexToDec(<<UpperCase(input[1]), UpperCase(input[2])>>)
        /\ decoded = HexToDec(<<LowerCase(input[1]), LowerCase(input[2])>>)

\* C4: for every h made of '#' and six hex digits of either case, ESToHTML
\* of the three fractions HTMLToES(h) returned is h with its digits in upper
\* case.
C4_RoundTripColor ==
    (pc = "roundtrip" /\ IsHexColor(hex)) =>
        html = [i \in 1..7 |-> UpperCase(hex[i])]

\* C5: for every triple of channel values, ESToHTML returns '#' followed by
\* the two-digit upper-case hex encoding of
\* clamp(truncate-toward-zero(channel * 255), 0, 255) for red, green and
\* blue: always 7 characters.
C5_ESToHTMLClamped ==
    pc = "html" =>
        /\ Len(html) = 7
        /\ html = <<35>> \o TwoDigitHex(ClampedByte(channels[1]))
                         \o TwoDigitHex(ClampedByte(channels[2]))
                         \o TwoDigitHex(ClampedByte(channels[3]))

\* C6: HTMLToES(hex) is empty if and only if hex does not start with '#' or
\* is shorter than 7 characters; for every other string, whatever its
\* characters, it is 3 values, each in [0, 1], that depend only on the
\* characters at positions 1..6.
C6_HTMLToESShape ==
    pc = "fractions" =>
        /\ fractions = <<>> <=> (hex = <<>> \/ hex[1] # 35 \/ Len(hex) < 7)
        /\ fractions # <<>> =>
            /\ Len(fractions) = 3
            /\ \A k \in 1..3 :
                /\ fractions[k][2] > 0
                /\ 0 <= fractions[k][1]
                /\ fractions[k][1] <= fractions[k][2]
            /\ \A other \in {SubSeq(hex, 1, 7), SubSeq(hex, 1, 7) \o <<35>>,
                             SubSeq(hex, 1, 7) \o <<102, 57>>} :
                fractions = HTMLToES(other)

\* C6 witness: a string longer than 7 that starts with '#' and holds a
\* character that is no hex digit in positions 1..6 was converted to 3
\* values.
C6_Witness ==
    /\ pc = "fractions"
    /\ Len(hex) > 7
    /\ hex[1] = 35
    /\ \E i \in 2..7 : ~IsHexDigit(hex[i])
    /\ Len(fractions) = 3

(***************************************************************************)
(* The two file conversions on the nodes of a file.  The i-th node is      *)
(* named by the i-th capital letter; a node is "color" or "ship" alone,    *)
(* with a name, or with a name and 1..MaxFields fields: numbers, or a      *)
(* colour code, or a string that is too short for one, followed by         *)
(* numbers.                                                                *)
(***************************************************************************)
SHIP == <<115, 104, 105, 112>>
NumberTokens == << <<49>>, <<48>>, <<48, 46, 53>>, <<48, 46, 50, 53>> >>
GoodCode == <<35, 57, 70, 48, 97, 49, 66>>
ShortCode == <<35, 49, 50>>

NodeName(i) == <<64 + i>>
NumberField(i, j) == NumberTokens[((i + j) % Len(NumberTokens)) + 1]
Fields(i, flavour, n) ==
    [j \in 1..n |->
        IF j = 1 /\ flavour = 2 THEN GoodCode
        ELSE IF j = 1 /\ flavour = 3 THEN ShortCode
        ELSE NumberField(i, j)]

Nodes(i) ==
    {<<SHIP>>, <<SHIP, NodeName(i)>> \o Fields(i, 1, MaxFields),
     <<COLOR>>, <<COLOR, NodeName(i)>>}
    \cup {<<COLOR, NodeName(i)>> \o Fields(i, flavour, n) :
            flavour \in 1..3, n \in 1..MaxFields}

InitFile ==
    /\ pc = "start"
    /\ file = <<>>
    /\ stdout = <<>>
    /\ noCodec /\ noColor /\ noMain

\* The file at the path is written, node after node, before the program
\* reads it.
WriteNode ==
    /\ pc = "start" /\ Len(file) < MaxRecords
    /\ \E node \in Nodes(Len(file) + 1) : file' = Append(file, node)
    /\ UNCHANGED <<pc, codecVars, colorVars, mainVars, stdout>>

RunESFileToHTML ==
    /\ pc = "start"
    /\ \E x \in UndefinedInts : stdout' = ESFileToHTML(file, [i \in 1..3 |-> x])
    /\ pc' = "es-to-hex"
    /\ UNCHANGED <<codecVars, colorVars, file, mainVars>>

RunHTMLFileToES ==
    /\ pc = "start"
    /\ stdout' = HTMLFileToES(file)
    /\ pc' = "hex-to-es"
    /\ UNCHANGED <<codecVars, colorVars, file, mainVars>>

NextFile == WriteNode \/ RunESFileToHTML \/ RunHTMLFileToES

SpecFile == InitFile /\ [][NextFile]_vars

(***************************************************************************)
(* What the specification says of the file conversions.                    *)
(***************************************************************************)
\* The lines of an output: the characters before each '\n'.
RECURSIVE SplitLines(_)
SplitLines(out) ==
    IF out = <<>> THEN <<>>
    ELSE LET ends == {i \in 1..Len(out) : out[i] = 10} \cup {Len(out) + 1}
             n == Min(ends)
         IN  <<SubSeq(out, 1, n - 1)>> \o SplitLines(SubSeq(out, n + 1, Len(out)))

CountOf(c, str) == Cardinality({i \in 1..Len(str) : str[i] = c})

\* "color", a name and at least 3 fields.
IsESColorRecord(node) == node[1] = COLOR /\ Len(node) >= 2 + 3
\* "color", a name and one further token.
IsHTMLColorRecord(node) == node[1] = COLOR /\ Len(node) >= 2 + 1
\* The strings HTMLToES is specified to fail on.
IsMalformedCode(token) == token = <<>> \/ token[1] # 35 \/ Len(token) < 7

C9_HTMLFileLines ==
    pc = "hex-to-es" =>
        LET kept == SelectSeq(file, IsHTMLColorRecord)
            lines == SplitLines(stdout)
        IN  /\ Len(lines) = Len(kept)
            /\ \A k \in 1..Len(kept) :
                LET head == COLOR \o <<34>> \o kept[k][2] \o <<34>>
                IN  /\ SubSeq(lines[k], 1, Len(head)) = head
                    /\ IsMalformedCode(kept[k][3]) => lines[k] = head
                    /\ ~IsMalformedCode(kept[k][3]) =>
                        /\ Len(lines[k]) > Len(head) + 1
                        /\ lines[k][Len(head) + 1] = 32
                        /\ CountOf(32, lines[k]) = 3

\* C9 witness: a file holding a record of fewer than 3 tokens, a "color"
\* record whose code is malformed and, after it, one whose code is well
\* formed, was converted to two lines.
C9_Witness ==
    /\ pc = "hex-to-es"
    /\ \E i, j, k \in 1..Len(file) :
        /\ i < j
        /\ IsHTMLColorRecord(file[i]) /\ IsMalformedCode(file[i][3])
        /\ IsHTMLColorRecord(file[j]) /\ ~IsMalformedCode(file[j][3])
        /\ file[k][1] = COLOR /\ Len(file[k]) < 3
    /\ Len(SplitLines(stdout)) = 2

(***************************************************************************)
(* The program: main on every command line of up to MaxArgs arguments      *)
(* taken from the two mode flags, a colour code, a string too short for    *)
(* one, a number, the path of the file and the empty string.               *)
(***************************************************************************)
PROGRAM == <<99, 111, 108, 111, 114, 45, 99, 111, 110, 118, 101, 114, 116, 101, 114>>
Arguments ==
    {ES_TO_HEX, HEX_TO_ES, GoodCode, ShortCode, <<48, 46, 53>>, COLORS_TXT, <<>>}

InitMain ==
    /\ pc = "main"
    /\ \E n \in 0..MaxArgs : \E args \in [1..n -> Arguments] :
         argv = <<PROGRAM>> \o args
    /\ it = 0
    /\ status = -1
    /\ ran = <<>>
    /\ stdout = <<>>
    /\ noCodec /\ noColor /\ noFile

NextMain ==
    \/ MainNoArguments
    \/ MainEnterLoop
    \/ MainExpectedArgument
    \/ MainESFileToHTML
    \/ MainHTMLFileToES
    \/ MainHTMLToES
    \/ MainNextArgument
    \/ MainLeaveLoop
    \/ MainESToHTML
    \/ MainFallThrough

SpecMain == InitMain /\ [][NextMain]_vars

(***************************************************************************)
(* What the specification says of main.                                    *)
(***************************************************************************)
nargs == Len(argv) - 1

\* The positions of the arguments that are --es-to-hex, --hex-to-es or
\* begin with '#'.
Triggers ==
    {i \in 1..nargs :
        \/ argv[i + 1] = ES_TO_HEX
        \/ argv[i + 1] = HEX_TO_ES
        \/ (argv[i + 1] # <<>> /\ argv[i + 1][1] = 35)}

\* C8: with no arguments the program prints the help text and exits with a
\* non-zero status; with arguments none of which is recognised (no mode
\* flag, none beginning with '#', fewer than the three of an inline colour)
\* it prints the help text and exits with another non-zero status.
C8_HelpOnNoMatch ==
    pc = "exit" =>
        /\ nargs = 0 => (stdout = PrintHelp /\ status # 0)
        /\ (nargs >= 1 /\ nargs < 3 /\ Triggers = {}) =>
              \* 1 is the status of the run with no arguments
              (stdout = PrintHelp /\ status # 0 /\ status # 1)

\* C10: main acts on the first argument that is a mode flag or begins with
\* '#' and exits without reading past it (past the path, for a flag): at
\* most one conversion runs; a flag converts the file at the next argument
\* and exits 0, or, with no next argument, prints an error, converts
\* nothing and exits 1; a '#' argument exits 0 even when it decodes to
\* nothing; the inline conversion runs only when no argument is a flag or
\* begins with '#' and there are at least three arguments.
C10_FirstMatchOnly ==
    /\ Len(ran) <= 1
    /\ \A k \in 1..Len(ran) :
          ran[k].fn = "ESToHTML" => (Triggers = {} /\ nargs >= 3)
    /\ Triggers # {} =>
          it <= Min(Triggers) + (IF IsModeFlag(argv[Min(Triggers) + 1]) THEN 1 ELSE 0)
    /\ (pc = "exit" /\ Triggers # {}) =>
          LET t == Min(Triggers)
              first == argv[t + 1]
          IN  IF IsModeFlag(first) /\ t = nargs
              THEN /\ status = 1
                   /\ ran = <<>>
                   /\ SubSeq(stdout, 1, Len(ExpectedArgument)) = ExpectedArgument
              ELSE IF IsModeFlag(first)
              THEN /\ status = 0
                   /\ it = t + 1
                   /\ Len(ran) = 1
                   /\ ran[1].fn = (IF first = ES_TO_HEX THEN "ESFileToHTML"
                                   ELSE "HTMLFileToES")
                   /\ ran[1].arg = argv[t + 2]
              ELSE /\ status = 0
                   /\ it = t
                   /\ Len(ran) = 1
                   /\ ran[1].fn = "HTMLToES"
                   /\ ran[1].arg = first
                   /\ IsMalformedCode(first) => stdout = <<>>
    /\ (pc = "exit" /\ Triggers = {} /\ nargs >= 3) =>
          (status = 0 /\ Len(ran) = 1 /\ ran[1].fn = "ESToHTML")

\* C10 witness: 0.5 --es-to-hex colors.txt #12 converted the file, and only
\* the file, and exited 0.
C10_Witness ==
    /\ pc = "exit"
    /\ argv = <<PROGRAM, <<48, 46, 53>>, ES_TO_HEX, COLORS_TXT, ShortCode>>
    /\ status = 0
    /\ Len(ran) = 1
    /\ ran[1].fn = "ESFileToHTML"
    /\ Len(SplitLines(stdout)) = 2

====
